---- MODULE Spec2Model ----
(***************************************************************************)
(* Model of src/app.js: the fetch orchestrator (fetchDay), the rate-limit  *)
(* cooldown manager, the session cache and the handlers that drive them.   *)
(*                                                                         *)
(* Time is Date.now() in milliseconds.  Latitudes and longitudes are fixed *)
(* point numbers in units of 1e-5 degree.  Every handler of the page is    *)
(* one action; the awaits of an async function split it into the steps the *)
(* event loop can interleave.                                              *)
(***************************************************************************)
EXTENDS Integers, Sequences, FiniteSets, TLC

(***************************************************************************)
(* Bounds of the model.                                                    *)
(***************************************************************************)
\* fetchDay invocations that pass the cooldown gate, over a whole run
MaxCalls == 2
\* steps of the clock
MaxTick == 1
\* cache entries in storage, where the cache is exercised on its own
MaxEntries == 1
\* rows in a timeline, where prepData is exercised on its own
MaxRows == 3

(***************************************************************************)
(* Program constants.                                                      *)
(***************************************************************************)
DEFAULT_THRESHOLD == 70
DAYS == 2
RL_DEFAULT_COOLDOWN_S == 10
\* a JS null in a numeric field (state.lat, state.lon)
NoCoord == -1
\* loadCached's default maxAgeMs, as fetchDay passes it
CACHE_MAX_AGE_MS == 5 * 60 * 1000

null == [null |-> TRUE]

VARIABLES
  state,          \* the AppState record
  dayAbort,       \* _dayAbort: the invocation owning the current AbortController, 0 = null
  rlTimer,        \* _rlTimer is set
  els,            \* the DOM the handlers write: error box, disabled flags, city list;
                  \* daySelect stays at 0 (Today)
  sessionStorage, \* [rl: the rate-limit item, cache: key -> entry]
  calls,          \* fetchDay invocations: id -> [pc, force, lat, lon, aborted, sup]
  nCalls,         \* invocations created so far
  here,           \* position of the useHere flow
  now,            \* Date.now()
  nTicks,         \* steps the clock has made
  last,           \* history: the handler that ran in the last step, and what it did
  cd,             \* history: the latest startRateLimitCooldown of this page, [t0, s]
  restored,       \* history: the deadline the last page load restored, 0 if none
  lastUiMinute,   \* _lastUiMinute, NoMinute = null
  uiRendered,     \* history: the minutes in which uiRefresh has rendered on this page
  probe           \* the last call of the cache on its own: arguments and result

vars == <<state, dayAbort, rlTimer, els, sessionStorage, calls, nCalls, here, now,
          nTicks, last, cd, restored, lastUiMinute, uiRendered, probe>>

(***************************************************************************)
(* Inputs.                                                                 *)
(***************************************************************************)
Models == {"ray", "local"}
\* useDemo's location, the geolocation fix (the same place), a city of the search
DemoLoc == [lat |-> 5236760, lon |-> 490410, label |-> "Amsterdam"]
GeoPositions == {[lat |-> 5236760, lon |-> 490410]}
CityResults == {[lat |-> 4885660, lon |-> 235220, label |-> "Paris"]}
\* a /day body with a timeline and meta.tz_name, and one with neither
Shapes == {"full", "notl"}
\* the Retry-After header: absent, or a string; digits says it matches /^\d+$/
NoHeader == [present |-> FALSE]
RetryAfterValues ==
  {NoHeader} \cup {[present |-> TRUE, digits |-> TRUE, n |-> n] : n \in {3, 10, 2000}}
    \cup {[present |-> TRUE, digits |-> FALSE]}
\* the detail field of an error body: none, or one naming the rate limit
Details == {"", "Rate limited, slow down"}

\* the body of a successful /day response: the location asked for, the request that
\* fetched it (no two requests get the same body) and its shape.  rows is the state
\* of the annotations tUtc leaves on the timeline's rows: "plain" as the API sent
\* them, "date" with _tUtc a Date and _tMs a number, "text" with _tUtc a string.
Payload(lat, lon, req, shape) ==
  [lat |-> lat, lon |-> lon, req |-> req, shape |-> shape, rows |-> "plain"]

\* what a /day request of invocation id can receive
\* (a Retry-After header is read only from a 503 that names the rate limit)
ErrorResponses ==
  {[kind |-> "error", status |-> s, detail |-> d, retryAfter |-> NoHeader] :
     s \in {500, 503}, d \in Details}
    \cup {[kind |-> "error", status |-> 503, detail |-> "Rate limited, slow down",
           retryAfter |-> ra] : ra \in RetryAfterValues}
OkResponses(id, lat, lon) ==
  {[kind |-> "ok", body |-> Payload(lat, lon, id, sh)] : sh \in Shapes}
    \cup {[kind |-> "okBadBody"]}
Responses(id, lat, lon) ==
  OkResponses(id, lat, lon) \cup ErrorResponses \cup {[kind |-> "netfail"]}

(***************************************************************************)
(* Small helpers.                                                          *)
(***************************************************************************)
Max(a, b) == IF a >= b THEN a ELSE b
Min(a, b) == IF a <= b THEN a ELSE b
clamp(n, a, b) == Max(a, Min(b, n))

\* msg.toLowerCase().includes('rate limited')
IncludesRateLimited(detail) == detail = "Rate limited, slow down"

\* Number(x).toFixed(4) of a coordinate in 1e-5 degree: rounded to 1e-4 degree
toFixed4(x) == ((x + 5) \div 10) * 10

(***************************************************************************)
(* The machine: the mutable program state a handler reads and writes,      *)
(* threaded through the operators below as the record m.  ev collects what *)
(* the handler did (history).                                              *)
(***************************************************************************)
Cur ==
  [state |-> state, dayAbort |-> dayAbort, rlTimer |-> rlTimer, els |-> els,
   sessionStorage |-> sessionStorage, calls |-> calls, nCalls |-> nCalls,
   here |-> here, cd |-> cd, lastUiMinute |-> lastUiMinute, uiRendered |-> uiRendered,
   ev |-> {}]

Log(m, e) == [m EXCEPT !.ev = @ \cup {e}]

InitState ==
  [lat |-> NoCoord, lon |-> NoCoord, label |-> "", data |-> null, days |-> null,
   tzName |-> null, isBusy |-> FALSE, rateLimitUntil |-> 0]

InitEls ==
  [errBox |-> "", ctlDisabled |-> FALSE, refreshDisabled |-> FALSE,
   daySelect |-> 0, city |-> "none"]

NoCall ==
  [pc |-> "none", force |-> FALSE, lat |-> NoCoord, lon |-> NoCoord,
   aborted |-> FALSE, sup |-> FALSE]

showError(m, msg) == [m EXCEPT !.els.errBox = msg]
clearError(m) == [m EXCEPT !.els.errBox = ""]

rateLimitRemainingMs(m) == Max(0, m.state.rateLimitUntil - now)

applyRateLimitUi(m, detailMsg) ==
  LET active == rateLimitRemainingMs(m) > 0
      m1 == [m EXCEPT !.els.refreshDisabled = active \/ m.state.isBusy]
  IN IF active THEN showError(m1, "Rate limited by the API") ELSE m1

setBusy(m, isBusy) ==
  applyRateLimitUi(
    [m EXCEPT !.state.isBusy = isBusy, !.els.ctlDisabled = isBusy,
              !.els.refreshDisabled = isBusy], "")

(***************************************************************************)
(* Rows and day buckets.                                                   *)
(***************************************************************************)
\* the instant of a timestamp that is no date: new Date(src).getTime() is NaN
NaN == -1
\* a row tUtc has not annotated yet: no _tMs on it
NoMs == -2

\* the timeline of a body: rows out of order, over two days, times set by the request
TimelineOf(p) ==
  IF p.shape = "full"
    THEN << [time_utc |-> p.req * 10 + 2, day_index |-> 0],
            [time_utc |-> p.req * 10 + 1, day_index |-> 0],
            [time_utc |-> p.req * 10 + 5, day_index |-> 1] >>
  ELSE IF p.shape = "given" THEN p.timeline
  ELSE << >>
\* data?.timeline is there
HasTimeline(p) == p.shape \in {"full", "given"}
TzNameOf(p) == IF HasTimeline(p) THEN [tz |-> "Europe/Amsterdam"] ELSE null

\* new Date(src).getTime(); time_utc 0 stands for text that is no date
DateParse(src) == IF src = 0 THEN NaN ELSE src

\* tUtc(r) leaves an annotated row alone, else parses its timestamp and stores the instant on it
tUtc(r) ==
  IF "ms" \in DOMAIN r
    THEN [r EXCEPT !.ms = IF @ = NoMs THEN DateParse(r.time_utc) ELSE @]
    ELSE r

\* the cached _tMs when it is a number (NaN is one), else the parsed instant
tMs(r) == IF "ms" \in DOMAIN r /\ r.ms # NoMs THEN r.ms ELSE DateParse(r.time_utc)

\* (a, b) => tMs(a) - tMs(b); a NaN result counts as 0 for Array.prototype.sort
Compare(a, b) == IF tMs(a) = NaN \/ tMs(b) = NaN THEN 0 ELSE tMs(a) - tMs(b)

\* Array.prototype.sort is stable: r moves left past the rows that compare greater
RECURSIVE InsertRow(_, _)
InsertRow(s, r) ==
  IF s = << >> THEN << r >>
  ELSE IF Compare(s[Len(s)], r) > 0
    THEN InsertRow(SubSeq(s, 1, Len(s) - 1), r) \o << s[Len(s)] >>
  ELSE s \o << r >>

RECURSIVE SortInto(_, _)
SortInto(acc, s) == IF s = << >> THEN acc ELSE SortInto(InsertRow(acc, Head(s)), Tail(s))

SortRows(s) == SortInto(<< >>, s)

Bucket(tl, di) == SelectSeq(tl, LAMBDA r : r.day_index = di)

\* the rows of a timeline once the loop of prepData has called tUtc on each
Annotated(tl) == [i \in DOMAIN tl |-> tUtc(tl[i])]

\* the object prepData assigns to state.days: day index -> rows
Buckets(tl) ==
  [rows |-> [di \in {tl[i].day_index : i \in DOMAIN tl} |->
               SortRows(Bucket(Annotated(tl), di))]]

\* variant: the buckets of the last call are kept and the rows pushed onto them
prepData_Accumulates(m, data) ==
  IF data = null \/ ~HasTimeline(data) THEN m
  ELSE LET tl == Annotated(TimelineOf(data))
           old == m.state.days
           had(di) == IF old # null /\ di \in DOMAIN old.rows THEN old.rows[di] ELSE << >>
       IN [m EXCEPT !.state.days =
                      [rows |-> [di \in {tl[i].day_index : i \in DOMAIN tl} |->
                                   SortRows(had(di) \o Bucket(tl, di))]],
                    !.state.data = IF data.shape = "given"
                                     THEN [data EXCEPT !.rows = "date", !.timeline = tl]
                                     ELSE [data EXCEPT !.rows = "date"]]

\* data is state.data at every call; tUtc(r) annotates its rows in place
prepData(m, data) ==
  IF data = null \/ ~HasTimeline(data) THEN m
  ELSE [m EXCEPT !.state.days = Buckets(TimelineOf(data)),
                 !.state.data = IF data.shape = "given"
                                  THEN [data EXCEPT !.rows = "date",
                                                    !.timeline = Annotated(@)]
                                  ELSE [data EXCEPT !.rows = "date"]]

(***************************************************************************)
(* Rate-limit cooldown.                                                    *)
(***************************************************************************)
\* variant: the stored deadline is not read back
loadRateLimitUntil_Forgets(m, sok) == m

\* sok: sessionStorage works during this handler (else every access throws)
loadRateLimitUntil(m, sok) ==
  IF ~sok THEN Log(m, "storageThrew")
  ELSE IF m.sessionStorage.rl > 0
    THEN [m EXCEPT !.state.rateLimitUntil = m.sessionStorage.rl]
    ELSE m

saveRateLimitUntil(m, ts, sok) ==
  IF sok THEN [m EXCEPT !.sessionStorage.rl = ts] ELSE Log(m, "storageThrew")

clearRateLimit(m, sok) ==
  applyRateLimitUi(
    [saveRateLimitUntil([m EXCEPT !.state.rateLimitUntil = 0], 0, sok)
       EXCEPT !.rlTimer = FALSE, !.cd = null], "")

\* variant: the deadline is counted in milliseconds, not seconds
startRateLimitCooldown_Millis(m, seconds, detailMsg, sok) ==
  LET s == clamp(seconds, 5, 15 * 60)
      m1 == [m EXCEPT !.state.rateLimitUntil = now + s]
      m2 == saveRateLimitUntil(m1, m1.state.rateLimitUntil, sok)
      m3 == [m2 EXCEPT !.rlTimer = TRUE, !.cd = [t0 |-> now, s |-> seconds]]
  IN Log(applyRateLimitUi(m3, detailMsg), "cooldown")

startRateLimitCooldown(m, seconds, detailMsg, sok) ==
  LET s == clamp(seconds, 5, 15 * 60)
      m1 == [m EXCEPT !.state.rateLimitUntil = now + s * 1000]
      m2 == saveRateLimitUntil(m1, m1.state.rateLimitUntil, sok)
      \* cd is history: this call's time and argument
      m3 == [m2 EXCEPT !.rlTimer = TRUE, !.cd = [t0 |-> now, s |-> seconds]]
  IN Log(applyRateLimitUi(m3, detailMsg), "cooldown")

(***************************************************************************)
(* Location.                                                               *)
(***************************************************************************)
\* variant: a new location also drops the cache
setLocation_DropsCache(m, lat, lon, label) ==
  [m EXCEPT !.state.lat = lat, !.state.lon = lon, !.state.label = label,
            !.state.data = null, !.state.days = null, !.state.tzName = null,
            !.sessionStorage.cache = [k \in DOMAIN @ |-> null]]

setLocation(m, lat, lon, label) ==
  [m EXCEPT !.state.lat = lat, !.state.lon = lon, !.state.label = label,
            !.state.data = null, !.state.days = null, !.state.tzName = null]

(***************************************************************************)
(* Cache.                                                                  *)
(***************************************************************************)
cacheKey(lat, lon, threshold, days, model) ==
  [rlat |-> toFixed4(lat), rlon |-> toFixed4(lon), thr |-> threshold,
   d |-> days, m |-> model]

\* the arguments saveCached and loadCached are exercised with on their own: those
\* of fetchDay at DemoLoc, and the same with one argument changed (a place 2e-5
\* degree away, another place, another threshold, another day count, the other model)
CacheArgs ==
  LET base == [lat |-> DemoLoc.lat, lon |-> DemoLoc.lon, threshold |-> DEFAULT_THRESHOLD,
               days |-> DAYS, model |-> "ray"]
  IN {base, [base EXCEPT !.lat = @ + 2], [base EXCEPT !.lat = 4885660, !.lon = 235220],
      [base EXCEPT !.threshold = 50], [base EXCEPT !.days = 1],
      [base EXCEPT !.model = "local"]}

CacheKeys ==
  {cacheKey(l.lat, l.lon, DEFAULT_THRESHOLD, DAYS, mo) :
     l \in {DemoLoc} \cup GeoPositions \cup CityResults, mo \in Models}
    \cup {cacheKey(a.lat, a.lon, a.threshold, a.days, a.model) : a \in CacheArgs}

\* A sessionStorage item: null (no item), text that is no JSON, or JSON text,
\* held as the value JSON.parse gives for it.
\* JSON.stringify writes a Date as its ISO string and a NaN as null
JSON_value(data) ==
  IF data = null THEN null
  ELSE LET d == [data EXCEPT !.rows = IF @ = "date" THEN "text" ELSE @]
       IN IF d.shape = "given"
            THEN [d EXCEPT !.timeline =
                    [i \in DOMAIN @ |-> [@[i] EXCEPT !.ms = IF @ = NaN THEN NoMs ELSE @]]]
            ELSE d
JSON_stringify(v) ==
  [kind |-> "json",
   value |-> IF v = null THEN null ELSE [v EXCEPT !.data = JSON_value(@)]]
Garbage == [kind |-> "garbage"]

\* variant: no age check
loadCachedItem_NoExpiry(raw, nowMs, maxAgeMs) ==
  IF raw = null THEN null
  ELSE IF raw.kind # "json" THEN null
  ELSE LET obj == raw.value
       IN IF obj = null \/ obj.ts = 0 \/ obj.data = null THEN null
          ELSE obj.data

\* loadCached from the item on: raw is what getItem returned
loadCachedItem(raw, nowMs, maxAgeMs) ==
  IF raw = null THEN null
  ELSE IF raw.kind # "json" THEN null                  \* JSON.parse throws
  ELSE LET obj == raw.value
       IN IF obj = null \/ obj.ts = 0 \/ obj.data = null THEN null
          ELSE IF nowMs - obj.ts > maxAgeMs THEN null
          ELSE obj.data

\* variant: the cache never hits
loadCached_Miss(m, lat, lon, threshold, maxAgeMs, days, model, sok) == null

loadCached(m, lat, lon, threshold, maxAgeMs, days, model, sok) ==
  IF ~sok THEN null                                    \* getItem throws
  ELSE loadCachedItem(m.sessionStorage.cache[cacheKey(lat, lon, threshold, days, model)],
                      now, maxAgeMs)

\* variant: the entry always goes under the primary model's key
saveCached_PrimaryKey(m, lat, lon, threshold, data, days, model, sok) ==
  IF ~sok THEN Log(m, "storageThrew")
  ELSE [m EXCEPT !.sessionStorage.cache[cacheKey(lat, lon, threshold, days, "ray")] =
                   JSON_stringify([ts |-> now, data |-> data])]

saveCached(m, lat, lon, threshold, data, days, model, sok) ==
  IF ~sok THEN Log(m, "storageThrew")
  ELSE [m EXCEPT !.sessionStorage.cache[cacheKey(lat, lon, threshold, days, model)] =
                   JSON_stringify([ts |-> now, data |-> data])]

(***************************************************************************)
(* render: what it writes to the machine.                                  *)
(***************************************************************************)
\* variant: render drops the buckets when the body has no timeline
render_ClearsStale(m) ==
  IF m.state.data = null THEN m
  ELSE LET di == m.els.daySelect
           m1 == IF ~HasTimeline(m.state.data) THEN [m EXCEPT !.state.days = null]
                 ELSE IF m.state.days # null /\ di \in DOMAIN m.state.days.rows
                   THEN m ELSE prepData(m, m.state.data)
       IN applyRateLimitUi(Log(m1, "render"), "")

render(m) ==
  IF m.state.data = null THEN m
  ELSE LET di == m.els.daySelect
           m1 == IF m.state.days # null /\ di \in DOMAIN m.state.days.rows
                   THEN m ELSE prepData(m, m.state.data)
       IN applyRateLimitUi(Log(m1, "render"), "")


(***************************************************************************)
(* fetchDay.  It runs in steps: the call up to `await nextPaint()`, the    *)
(* part from there to `await fetch(urlRay)`, the part after the primary    *)
(* response, the part after the fallback response.  A response step takes  *)
(* the headers and the body of the response together.                      *)
(***************************************************************************)
ApiErrorMsg(status) == IF status = 503 THEN "API error 503" ELSE "API error 500"

\* _lastUiMinute before the first uiRefresh that renders
NoMinute == -1

\* Math.floor(Date.now() / 60000)
MinuteOf(t) == t \div 60000

\* variant: every wake event renders
uiRefresh_NoCoalesce(m) ==
  IF m.state.data = null \/ m.state.isBusy THEN m
  ELSE render([m EXCEPT !.lastUiMinute = MinuteOf(now),
                        !.uiRendered = @ \cup {MinuteOf(now)}])

\* lines 1115-1121: the timer, the visibilitychange and the focus listener all call it
uiRefresh(m) ==
  IF m.state.data = null \/ m.state.isBusy THEN m
  ELSE IF m.lastUiMinute = MinuteOf(now) THEN Log(m, "sameMinute")
  ELSE render([m EXCEPT !.lastUiMinute = MinuteOf(now),
                        !.uiRendered = @ \cup {MinuteOf(now)}])

\* the invocation is over: its finally block has run
Return(m, i) == Log([m EXCEPT !.calls[i] = NoCall], "return")

\* _dayAbort.abort(): the request of the invocation owning the controller is cancelled
abort(m) ==
  IF m.dayAbort # 0 /\ m.calls[m.dayAbort].pc \in {"ray", "local"}
    THEN [m EXCEPT !.calls[m.dayAbort].aborted = TRUE]
    ELSE m

\* lines 445-446: setBusy(true), await nextPaint(); the invocation gets its id
fetchDayStart(m, force) ==
  LET id == m.nCalls + 1
      m1 == setBusy(m, TRUE)
      \* history: the requests in flight now have a newer invocation after them
      old == [i \in DOMAIN m1.calls |->
                IF m1.calls[i].pc \in {"ray", "local"}
                  THEN [m1.calls[i] EXCEPT !.sup = TRUE] ELSE m1.calls[i]]
  IN Log([m1 EXCEPT !.nCalls = id,
                    !.calls = [old EXCEPT ![id] = [NoCall EXCEPT !.pc = "paint",
                                                                !.force = force]]],
         "call")

\* variant: the gate turns away forced calls only
fetchDay_GateForcedOnly(m, force) ==
  IF force /\ rateLimitRemainingMs(m) > 0
    THEN Log(applyRateLimitUi(m, ""), "gate")
    ELSE fetchDayStart(m, force)

\* lines 438-446: the cooldown gate, then the start of the invocation
fetchDay(m, force) ==
  IF rateLimitRemainingMs(m) > 0
    THEN Log(applyRateLimitUi(m, ""), "gate")
    ELSE fetchDayStart(m, force)

\* lines 514-520 and the finally block
fetchDayApply(m, i, data, usedModel, sok) ==
  LET c == m.calls[i]
      m1 == [m EXCEPT !.state.data = data, !.state.tzName = TzNameOf(data)]
      m2 == prepData(m1, m1.state.data)
      \* data and state.data are one object
      m3 == saveCached(m2, c.lat, c.lon, DEFAULT_THRESHOLD, m2.state.data, DAYS,
                       usedModel, sok)
  IN Return(setBusy(render(Log(m3, "apply")), FALSE), i)

\* the catch block for an error that is no AbortError, and the finally block
fetchDayNetworkError(m, i) ==
  Return(setBusy(showError(m, "Network error (could not reach API)."), FALSE), i)

\* lines 447-485: after the paint, up to the primary request
fetchDayAfterPaint(m, i, sok) ==
  LET c == m.calls[i]
      m1 == clearError(m)
      lat == m1.state.lat
      lon == m1.state.lon
      cachedRay == loadCached(m1, lat, lon, DEFAULT_THRESHOLD, CACHE_MAX_AGE_MS,
                              DAYS, "ray", sok)
      cached == IF cachedRay # null THEN cachedRay
                ELSE loadCached(m1, lat, lon, DEFAULT_THRESHOLD, CACHE_MAX_AGE_MS,
                                DAYS, "local", sok)
  IN IF lat = NoCoord \/ lon = NoCoord
       THEN Return(setBusy(showError(m1, "No location set"), FALSE), i)
     ELSE IF ~c.force /\ cached # null
       THEN LET m2 == [m1 EXCEPT !.state.data = cached, !.state.tzName = TzNameOf(cached)]
            IN Return(setBusy(render(prepData(Log(m2, "cacheHit"), m2.state.data)), FALSE), i)
     ELSE LET m2 == abort(IF c.force THEN m1
                          ELSE Log(m1, IF sok THEN "cacheMiss" ELSE "storageThrew"))
          IN Log([m2 EXCEPT !.dayAbort = i,
                            !.calls[i] = [c EXCEPT !.pc = "ray", !.lat = lat, !.lon = lon]],
                 "fetch_ray")

\* variant: the Retry-After header is ignored
RetryAfterSeconds_NoHint(ra) == RL_DEFAULT_COOLDOWN_S

\* lines 491-497: the cooldown a rate-limit response asks for
RetryAfterSeconds(ra) ==
  IF ra.present /\ ra.digits THEN clamp(ra.n, 5, 15 * 60) ELSE RL_DEFAULT_COOLDOWN_S

\* variant: a rate-limit answer is an error like any other, the fallback is tried
fetchDayOnRay_AlwaysFallback(m, i, r, sok) ==
  IF r.kind = "netfail" \/ r.kind = "okBadBody" THEN fetchDayNetworkError(m, i)
  ELSE IF r.kind = "ok" THEN fetchDayApply(m, i, r.body, "ray", sok)
  ELSE Log([m EXCEPT !.calls[i].pc = "local"], "fetch_local")

\* lines 485-502 and on: the primary response r has arrived
fetchDayOnRay(m, i, r, sok) ==
  IF r.kind = "netfail" \/ r.kind = "okBadBody" THEN fetchDayNetworkError(m, i)
  ELSE IF r.kind = "ok" THEN fetchDayApply(m, i, r.body, "ray", sok)
  ELSE IF r.status = 503 /\ IncludesRateLimited(r.detail)
    THEN Return(setBusy(startRateLimitCooldown(m, RetryAfterSeconds(r.retryAfter),
                                               r.detail, sok), FALSE), i)
  ELSE Log([m EXCEPT !.calls[i].pc = "local"], "fetch_local")

\* variant: a failed fallback request is sent again
fetchDayOnLocal_Retries(m, i, r, sok) ==
  IF r.kind = "netfail" \/ r.kind = "okBadBody" THEN fetchDayNetworkError(m, i)
  ELSE IF r.kind = "ok" THEN fetchDayApply(m, i, r.body, "local", sok)
  ELSE Log(m, "fetch_local")

\* lines 504-520: the fallback response r has arrived
fetchDayOnLocal(m, i, r, sok) ==
  IF r.kind = "netfail" \/ r.kind = "okBadBody" THEN fetchDayNetworkError(m, i)
  ELSE IF r.kind = "ok" THEN fetchDayApply(m, i, r.body, "local", sok)
  ELSE Return(setBusy(showError(m, IF r.detail # "" THEN r.detail
                                   ELSE ApiErrorMsg(r.status)), FALSE), i)

\* line 522: the awaited fetch rejects with AbortError; the finally block runs
fetchDayAborted(m, i) == Return(setBusy(Log(m, "aborted"), FALSE), i)

\* lines 504-512: the fallback response was a non-success and the abort lands while
\* its body is read: `await res.json()` rejects inside the inner try, whose catch is
\* empty, so msg stays `API error ${res.status}` and is shown
fetchDayAbortedInErrorBody(m, i, status) ==
  Return(setBusy(showError(Log(m, "abortedInBody"), ApiErrorMsg(status)), FALSE), i)

(***************************************************************************)
(* The page.                                                               *)
(***************************************************************************)
\* what the claims compare a handler's result with: AppState as fetchDay found it
PreOf(m) ==
  [data |-> m.state.data, days |-> m.state.days, tzName |-> m.state.tzName]

NoPre == PreOf([state |-> InitState])

\* the handlers no claim is about leave one and the same trace
Quiet == {"ClickHere", "GeoSuccess", "GeoError", "CityInput",
          "CitySearchDone", "DocumentClick"}
NoTrace ==
  [op |-> "other", id |-> 0, arg |-> FALSE, call |-> NoCall, pre |-> NoPre, ev |-> {},
   err |-> ""]

\* a cancelled request's promise has rejected and its continuation has not run yet
AbortPending == \E i \in 1..MaxCalls : calls[i].aborted

\* The continuation of a rejected promise is a microtask: it runs before any other
\* handler of the page does.
Commit(m, op, id, arg, pre) ==
  /\ op # "AbortDelivered" => ~AbortPending
  /\ state' = m.state
  /\ dayAbort' = m.dayAbort
  /\ rlTimer' = m.rlTimer
  /\ els' = m.els
  /\ sessionStorage' = m.sessionStorage
  /\ calls' = m.calls
  /\ nCalls' = m.nCalls
  /\ here' = m.here
  /\ cd' = m.cd
  /\ lastUiMinute' = m.lastUiMinute
  /\ uiRendered' = m.uiRendered
  /\ last' = IF op \in Quiet THEN NoTrace ELSE
              [op |-> op, id |-> id, arg |-> arg,
               call |-> IF id \in 1..MaxCalls THEN calls[id] ELSE NoCall,
               pre |-> IF "apply" \in m.ev \/ "cacheHit" \in m.ev THEN NoPre ELSE pre,
               ev |-> m.ev,
               \* the error box as a cancelled request's continuation found it
               err |-> IF op = "AbortDelivered" THEN els.errBox ELSE ""]

NoHere == [pc |-> "none", lat |-> NoCoord, lon |-> NoCoord]

\* lines 1051-1062: useHere up to getCurrentPosition.  Nothing reads or writes
\* the machine between setBusy(true) and the call, so the paint is no step of its own;
\* navigator.geolocation is taken to be there.
useHere(m) == [setBusy(m, TRUE) EXCEPT !.here = [NoHere EXCEPT !.pc = "geo"]]

\* a fresh page over the session's storage: the script's top level and the
\* DOMContentLoaded handler (lines 1134-1146)
PageLoad(store, sok) ==
  LET m0 == [state |-> InitState, dayAbort |-> 0, rlTimer |-> FALSE, els |-> InitEls,
             sessionStorage |-> store, calls |-> [i \in 1..MaxCalls |-> NoCall],
             nCalls |-> nCalls, here |-> NoHere, cd |-> null,
             lastUiMinute |-> NoMinute, uiRendered |-> {}, ev |-> {}]
      m1 == applyRateLimitUi(loadRateLimitUntil(m0, sok), "")
  IN useHere(m1)

\* In the page model sessionStorage works: no access throws.  (What loadCached does
\* when one throws is checked where the cache is checked on its own.)
StorageWorks == TRUE

EmptyStorage == [rl |-> 0, cache |-> [k \in CacheKeys |-> null]]

Init ==
  /\ now = 1000
  /\ nCalls = 0
  /\ LET m == [PageLoad(EmptyStorage, StorageWorks) EXCEPT !.nCalls = 0]
     IN /\ state = m.state
        /\ dayAbort = m.dayAbort
        /\ rlTimer = m.rlTimer
        /\ els = m.els
        /\ sessionStorage = m.sessionStorage
        /\ calls = m.calls
        /\ here = m.here
        /\ cd = m.cd
        /\ lastUiMinute = m.lastUiMinute
        /\ uiRendered = m.uiRendered
  /\ nTicks = 0
  /\ last = [NoTrace EXCEPT !.op = "Load"]
  /\ restored = 0
  /\ probe = null

\* a fetchDay call may be made: the bound on invocations leaves room, or the gate is shut
CanFetch == nCalls < MaxCalls \/ state.rateLimitUntil > now

\* the document's click listener (lines 400-404), for a click outside the city list
hideCityResults(m) ==
  IF m.els.city = "shown" THEN [m EXCEPT !.els.city = "none"] ELSE m

\* the page is reloaded: the script state and the DOM start afresh, sessionStorage stays
Reload ==
  LET m == PageLoad(sessionStorage, StorageWorks)
  IN /\ Commit(m, "Reload", 0, FALSE, NoPre)
     \* history: the deadline in storage, if it is still ahead
     /\ restored' = IF sessionStorage.rl > now THEN sessionStorage.rl ELSE 0
     /\ UNCHANGED <<now, nTicks, probe>>

\* btnRefresh click (line 1108)
ClickRefresh ==
  /\ ~els.refreshDisabled
  /\ CanFetch
  /\ LET m0 == hideCityResults(Cur)
     IN Commit(fetchDay(m0, TRUE), "ClickRefresh", nCalls + 1, TRUE, PreOf(m0))
  /\ UNCHANGED <<now, nTicks, restored, probe>>

\* btnDemo click: useDemo (lines 1046-1049)
ClickDemo ==
  /\ ~els.ctlDisabled
  /\ CanFetch
  /\ LET m0 == setLocation(hideCityResults(Cur), DemoLoc.lat, DemoLoc.lon, DemoLoc.label)
     IN Commit(fetchDay(m0, FALSE), "ClickDemo", nCalls + 1, FALSE, PreOf(m0))
  /\ UNCHANGED <<now, nTicks, restored, probe>>

\* btnHere click (line 1107); one useHere flow at a time
ClickHere ==
  /\ ~els.ctlDisabled
  /\ here.pc = "none"
  /\ Commit(useHere(hideCityResults(Cur)), "ClickHere", 0, FALSE, NoPre)
  /\ UNCHANGED <<now, nTicks, restored, probe>>

\* the position arrives: setLocation, then the reverse geocoding request (lines 1063-1078)
GeoSuccess ==
  /\ here.pc = "geo"
  /\ \E pos \in GeoPositions :
       Commit([setLocation(Cur, pos.lat, pos.lon, "My location")
                 EXCEPT !.here = [pc |-> "revgeo", lat |-> pos.lat, lon |-> pos.lon]],
              "GeoSuccess", 0, FALSE, NoPre)
  /\ UNCHANGED <<now, nTicks, restored, probe>>

\* the position is refused or times out (lines 1096-1100)
GeoError ==
  /\ here.pc = "geo"
  /\ Commit([setBusy(showError(Cur, "Please allow location, or search for a city above."),
                     FALSE) EXCEPT !.here = NoHere],
            "GeoError", 0, FALSE, NoPre)
  /\ UNCHANGED <<now, nTicks, restored, probe>>

\* the reverse geocoding answer (a city, or none): lines 1079-1094, up to fetchDay's await
RevGeoDone ==
  /\ here.pc = "revgeo"
  /\ CanFetch
  /\ \E city \in {"", "Amsterdam"} :
       LET m0 == IF city # "" THEN setLocation(Cur, here.lat, here.lon, city) ELSE Cur
           m1 == [m0 EXCEPT !.here = NoHere]
       IN Commit(fetchDay(m1, FALSE), "RevGeoDone", nCalls + 1, FALSE, PreOf(m1))
  /\ UNCHANGED <<now, nTicks, restored, probe>>

\* typing in cityInput: the geocoding search is sent (lines 360-363, 330-338)
CityInput ==
  /\ ~els.ctlDisabled
  /\ els.city # "pending"
  /\ Commit([Cur EXCEPT !.els.city = "pending"], "CityInput", 0, FALSE, NoPre)
  /\ UNCHANGED <<now, nTicks, restored, probe>>

\* the geocoding answer: a list that is shown, or nothing (lines 339-346)
CitySearchDone ==
  /\ els.city = "pending"
  /\ \E found \in BOOLEAN :
       Commit([Cur EXCEPT !.els.city = IF found THEN "shown" ELSE "none"],
              "CitySearchDone", 0, found, NoPre)
  /\ UNCHANGED <<now, nTicks, restored, probe>>

\* a city of the shown list is picked: chooseCityResult (lines 349-357)
ChooseCity ==
  /\ els.city = "shown"
  /\ CanFetch
  /\ \E r \in CityResults :
       LET m0 == [setLocation(Cur, r.lat, r.lon, r.label) EXCEPT !.els.city = "none"]
       IN Commit(fetchDay(m0, FALSE), "ChooseCity", nCalls + 1, FALSE, PreOf(m0))
  /\ UNCHANGED <<now, nTicks, restored, probe>>

\* a click elsewhere on the page hides the list (lines 400-404)
DocumentClick ==
  /\ els.city = "shown"
  /\ Commit(hideCityResults(Cur), "DocumentClick", 0, FALSE, NoPre)
  /\ UNCHANGED <<now, nTicks, restored, probe>>

\* requestAnimationFrame resolves nextPaint for invocation i
PaintDone ==
  \E i \in 1..MaxCalls :
    /\ calls[i].pc = "paint"
    /\ Commit(fetchDayAfterPaint(Cur, i, StorageWorks), "PaintDone", i, calls[i].force,
              PreOf(Cur))
    /\ UNCHANGED <<now, nTicks, restored, probe>>

\* the primary request of invocation i settles
RayResponse ==
  \E i \in 1..MaxCalls :
    /\ calls[i].pc = "ray"
    /\ ~calls[i].aborted
    /\ \E r \in Responses(i, calls[i].lat, calls[i].lon) :
         Commit(fetchDayOnRay(Cur, i, r, StorageWorks), "RayResponse", i, r, PreOf(Cur))
    /\ UNCHANGED <<now, nTicks, restored, probe>>

\* the fallback request of invocation i settles
LocalResponse ==
  \E i \in 1..MaxCalls :
    /\ calls[i].pc = "local"
    /\ ~calls[i].aborted
    /\ \E r \in Responses(i, calls[i].lat, calls[i].lon) :
         Commit(fetchDayOnLocal(Cur, i, r, StorageWorks), "LocalResponse", i, r, PreOf(Cur))
    /\ UNCHANGED <<now, nTicks, restored, probe>>

\* the cancelled request of invocation i rejects
AbortDelivered ==
  \E i \in 1..MaxCalls :
    /\ calls[i].pc \in {"ray", "local"}
    /\ calls[i].aborted
    /\ \/ Commit(fetchDayAborted(Cur, i), "AbortDelivered", i, FALSE, PreOf(Cur))
       \/ /\ calls[i].pc = "local"
          /\ \E status \in {500, 503} :
               Commit(fetchDayAbortedInErrorBody(Cur, i, status), "AbortDelivered", i,
                      [kind |-> "errorBody", status |-> status], PreOf(Cur))
    /\ UNCHANGED <<now, nTicks, restored, probe>>

\* the cooldown's interval callback (lines 236-243)
RlTimerFire ==
  /\ rlTimer
  /\ LET m == IF now >= state.rateLimitUntil
                THEN clearError(clearRateLimit(Cur, StorageWorks))
                ELSE applyRateLimitUi(Cur, "detail")
     IN Commit(m, "RlTimerFire", 0, FALSE, PreOf(Cur))
  /\ UNCHANGED <<now, nTicks, restored, probe>>

(***************************************************************************)
(* The clock.  It jumps to the instants at which a comparison of the       *)
(* program changes its answer: the cooldown deadline (from there on the    *)
(* gate is open) and the first millisecond at which a cache entry is too   *)
(* old.                                                                    *)
(***************************************************************************)
CacheExpiries ==
  {sessionStorage.cache[k].value.ts + CACHE_MAX_AGE_MS :
     k \in {k \in CacheKeys : sessionStorage.cache[k] # null}}

TickTargets ==
  {t \in {state.rateLimitUntil} \cup {e + 1 : e \in CacheExpiries} : t > now}

Tick ==
  /\ ~AbortPending
  /\ nTicks < MaxTick
  /\ nTicks' = nTicks + 1
  /\ \E t \in TickTargets : now' = t
  /\ last' = NoTrace
  /\ UNCHANGED <<state, dayAbort, rlTimer, els, sessionStorage, calls, nCalls, here,
                 cd, restored, probe,
                 lastUiMinute, uiRendered>>

Next ==
  \/ Reload
  \/ ClickRefresh
  \/ ClickDemo
  \/ ClickHere
  \/ GeoSuccess
  \/ GeoError
  \/ RevGeoDone
  \/ CityInput
  \/ CitySearchDone
  \/ ChooseCity
  \/ DocumentClick
  \/ PaintDone
  \/ RayResponse
  \/ LocalResponse
  \/ AbortDelivered
  \/ RlTimerFire
  \/ Tick

Spec == Init /\ [][Next]_vars

(***************************************************************************)
(* The page with its UI tick.  startUiTick (lines 1123-1129) has run at    *)
(* script load: uiRefresh is called by the 15 s interval, by               *)
(* visibilitychange when the page is shown, and by focus.  The three call  *)
(* the same function with no argument, at any time, any number of times,   *)
(* so they are one action.                                                 *)
(***************************************************************************)
UiRefresh ==
  /\ Commit(uiRefresh(Cur), "UiRefresh", 0, FALSE, PreOf(Cur))
  /\ UNCHANGED <<now, nTicks, restored, probe>>

NextUi == Next \/ UiRefresh

SpecUi == Init /\ [][NextUi]_vars

(***************************************************************************)
(* What happens without the user: the steps the browser takes by itself.   *)
(* A paint, a response, a geolocation answer, a rejection arrive in the    *)
(* end; the intervals fire as long as they are set; the clock moves on.    *)
(* Clicks, typing and reloads are the user's and may never happen.         *)
(***************************************************************************)
\* requestAnimationFrame has a callback of fetchDay to run
PaintPending == ~AbortPending /\ \E i \in 1..MaxCalls : calls[i].pc = "paint"

\* the bound on invocations, not the program, keeps useHere from calling fetchDay
HeldByBound == here.pc = "revgeo" /\ ~CanFetch

SpecLive ==
  /\ SpecUi
  /\ WF_vars(GeoSuccess \/ GeoError)
  /\ WF_vars(RevGeoDone)
  /\ WF_vars(CitySearchDone)
  \* weak fairness of PaintDone, with its enabling condition written out
  /\ ([]<>(~PaintPending) \/ []<><<PaintDone>>_vars)
  /\ WF_vars(RayResponse)
  /\ WF_vars(LocalResponse)
  /\ WF_vars(AbortDelivered)
  /\ WF_vars(RlTimerFire)
  /\ WF_vars(UiRefresh)
  /\ WF_vars(Tick)

(***************************************************************************)
(* The cache on its own: sessionStorage holds one item under the key of    *)
(* DemoLoc's primary model, written by anyone; the clock moves; loadCached *)
(* is called with any maxAgeMs, with storage working or throwing.          *)
(***************************************************************************)
ProbeKey == cacheKey(DemoLoc.lat, DemoLoc.lon, DEFAULT_THRESHOLD, DAYS, "ray")
ProbeBody == Payload(DemoLoc.lat, DemoLoc.lon, 1, "full")
\* instants: two write times, and the reads around five minutes and one minute later
ProbeTimes == {1000, 61000, 61001, 200000, 301000, 301001, 600000}
ProbeMaxAges == {0, 60 * 1000, 5 * 60 * 1000}
\* no item, text that is no JSON, the JSON null, entries without ts or data, entries
ProbeItems ==
  {null, Garbage, JSON_stringify(null)}
    \cup {JSON_stringify([ts |-> t, data |-> d]) :
            t \in {0, 1000, 200000}, d \in {null, ProbeBody}}

InitCache ==
  /\ now \in {1000, 200000}
  /\ nCalls = 0
  /\ nTicks = 0
  /\ state = InitState
  /\ dayAbort = 0
  /\ rlTimer = FALSE
  /\ els = InitEls
  /\ \E item \in ProbeItems :
       sessionStorage = [EmptyStorage EXCEPT !.cache[ProbeKey] = item]
  /\ calls = [i \in 1..MaxCalls |-> NoCall]
  /\ here = NoHere
  /\ cd = null
  /\ lastUiMinute = NoMinute
  /\ uiRendered = {}
  /\ last = NoTrace
  /\ restored = 0
  /\ probe = null

\* loadCached(lat, lon, threshold, maxAgeMs, opts)
CacheLoad ==
  /\ \E maxAgeMs \in ProbeMaxAges, sok \in BOOLEAN, model \in Models :
       probe' = [fn |-> "loadCached", at |-> now, model |-> model, maxAgeMs |-> maxAgeMs, sok |-> sok,
                 out |-> loadCached(Cur, DemoLoc.lat, DemoLoc.lon, DEFAULT_THRESHOLD,
                                    maxAgeMs, DAYS, model, sok)]
  /\ UNCHANGED <<state, dayAbort, rlTimer, els, sessionStorage, calls, nCalls, here, now,
                 nTicks, last, cd, restored,
                 lastUiMinute, uiRendered>>

CacheClock ==
  /\ \E t \in ProbeTimes : t > now /\ now' = t
  /\ UNCHANGED <<state, dayAbort, rlTimer, els, sessionStorage, calls, nCalls, here,
                 nTicks, last, cd, restored, probe,
                 lastUiMinute, uiRendered>>

NextCache == CacheLoad \/ CacheClock

SpecCache == InitCache /\ [][NextCache]_vars

(***************************************************************************)
(* saveCached and loadCached together: storage starts empty, bodies are    *)
(* saved, the clock moves, loadCached is called.  probe is the last call;  *)
(* a loadCached keeps the saveCached it came right after.                  *)
(***************************************************************************)
\* a body as the API sent it, the same body after prepData, a body without a timeline
RoundTripBodies ==
  {Payload(DemoLoc.lat, DemoLoc.lon, 1, "full"),
   [Payload(DemoLoc.lat, DemoLoc.lon, 1, "full") EXCEPT !.rows = "date"],
   Payload(DemoLoc.lat, DemoLoc.lon, 1, "notl")}
RoundTripTimes == {1000, 61000, 61001}
RoundTripMaxAges == {0, 60 * 1000}

InitRoundTrip ==
  /\ now = 1000
  /\ nCalls = 0
  /\ nTicks = 0
  /\ state = InitState
  /\ dayAbort = 0
  /\ rlTimer = FALSE
  /\ els = InitEls
  /\ sessionStorage = EmptyStorage
  /\ calls = [i \in 1..MaxCalls |-> NoCall]
  /\ here = NoHere
  /\ cd = null
  /\ lastUiMinute = NoMinute
  /\ uiRendered = {}
  /\ last = NoTrace
  /\ restored = 0
  /\ probe = null

\* saveCached(lat, lon, threshold, data, opts)
RoundTripSave ==
  /\ Cardinality({k \in CacheKeys : sessionStorage.cache[k] # null}) < MaxEntries
  /\ \E a \in CacheArgs, data \in RoundTripBodies, sok \in BOOLEAN :
       /\ sessionStorage' =
            saveCached(Cur, a.lat, a.lon, a.threshold, data, a.days, a.model,
                       sok).sessionStorage
       /\ probe' = [fn |-> "saveCached", args |-> a, data |-> data, at |-> now,
                    sok |-> sok]
  /\ UNCHANGED <<state, dayAbort, rlTimer, els, calls, nCalls, here, now, nTicks, last,
                 cd, restored,
                 lastUiMinute, uiRendered>>

\* loadCached(lat, lon, threshold, maxAgeMs, opts)
RoundTripLoad ==
  /\ \E a \in CacheArgs, maxAgeMs \in RoundTripMaxAges, sok \in BOOLEAN :
       probe' = [fn |-> "loadCached", args |-> a, maxAgeMs |-> maxAgeMs, at |-> now,
                 sok |-> sok,
                 out |-> loadCached(Cur, a.lat, a.lon, a.threshold, maxAgeMs, a.days,
                                    a.model, sok),
                 saved |-> IF probe # null /\ probe.fn = "saveCached" THEN probe
                           ELSE null]
  /\ UNCHANGED <<state, dayAbort, rlTimer, els, sessionStorage, calls, nCalls, here, now,
                 nTicks, last, cd, restored,
                 lastUiMinute, uiRendered>>

RoundTripClock ==
  /\ \E t \in RoundTripTimes : t > now /\ now' = t
  /\ UNCHANGED <<state, dayAbort, rlTimer, els, sessionStorage, calls, nCalls, here,
                 nTicks, last, cd, restored, probe,
                 lastUiMinute, uiRendered>>

NextRoundTrip == RoundTripSave \/ RoundTripLoad \/ RoundTripClock

SpecRoundTrip == InitRoundTrip /\ [][NextRoundTrip]_vars

(***************************************************************************)
(* setLocation on its own: the page is in any of a set of states (with or  *)
(* without data, busy or not, cooling or not, cache empty or not) and      *)
(* setLocation is called.  probe keeps the call and the page as it was.    *)
(***************************************************************************)
LoadedBody == [Payload(DemoLoc.lat, DemoLoc.lon, 1, "full") EXCEPT !.rows = "date"]

\* the places setLocation is called with: useDemo's, a city's, the geolocation fix
SetLocationArgs ==
  {DemoLoc} \cup CityResults
    \cup {[lat |-> g.lat, lon |-> g.lon, label |-> "My location"] : g \in GeoPositions}

InitSetLocation ==
  /\ now = 1000
  /\ nCalls = 0
  /\ nTicks = 0
  /\ \E busy \in BOOLEAN, until \in {0, 11000}, loaded \in BOOLEAN, cached \in BOOLEAN,
        errBox \in {"", "Network error (could not reach API)."} :
       /\ state = IF loaded
                    THEN [lat |-> DemoLoc.lat, lon |-> DemoLoc.lon, label |-> DemoLoc.label,
                          data |-> LoadedBody, days |-> Buckets(TimelineOf(LoadedBody)),
                          tzName |-> TzNameOf(LoadedBody), isBusy |-> busy,
                          rateLimitUntil |-> until]
                    ELSE [InitState EXCEPT !.isBusy = busy, !.rateLimitUntil = until]
       /\ sessionStorage =
            [rl |-> until,
             cache |-> IF cached
                         THEN [EmptyStorage.cache EXCEPT ![ProbeKey] =
                                 JSON_stringify([ts |-> 1000, data |-> LoadedBody])]
                         ELSE EmptyStorage.cache]
       /\ rlTimer = (until > 0)
       /\ els = [InitEls EXCEPT !.errBox = errBox, !.ctlDisabled = busy,
                                !.refreshDisabled = busy \/ until > now]
  /\ dayAbort = 0
  /\ calls = [i \in 1..MaxCalls |-> NoCall]
  /\ here = NoHere
  /\ cd = null
  /\ lastUiMinute = NoMinute
  /\ uiRendered = {}
  /\ last = NoTrace
  /\ restored = 0
  /\ probe = null

\* setLocation(lat, lon, label)
SetLocationCall ==
  /\ \E a \in SetLocationArgs :
       /\ Commit(setLocation(Cur, a.lat, a.lon, a.label), "setLocation", 0, FALSE, PreOf(Cur))
       /\ probe' = [fn |-> "setLocation", args |-> a, was |-> Cur]
  /\ UNCHANGED <<now, nTicks, restored>>

NextSetLocation == SetLocationCall

SpecSetLocation == InitSetLocation /\ [][NextSetLocation]_vars

(***************************************************************************)
(* prepData on its own: a body with any short timeline arrives (lines      *)
(* 516-517), and prepData runs again on what the first run left, either    *)
(* the object in memory or its copy read back from the cache (lines        *)
(* 466-468).  probe keeps the timeline and the buckets of the run before.  *)
(***************************************************************************)
\* the rows a body can carry: a timestamp that parses (1, 2) or not (0), a day index
RowValues ==
  {[time_utc |-> t, day_index |-> di, ms |-> NoMs] : t \in {0, 1, 2}, di \in {0, 1}}

RECURSIVE SeqsUpTo(_, _)
SeqsUpTo(S, n) ==
  IF n = 0 THEN {<< >>}
  ELSE LET shorter == SeqsUpTo(S, n - 1)
       IN shorter \cup {Append(q, x) : q \in {r \in shorter : Len(r) = n - 1}, x \in S}

Timelines == SeqsUpTo(RowValues, MaxRows)

GivenBody(tl) ==
  [lat |-> DemoLoc.lat, lon |-> DemoLoc.lon, req |-> 1, shape |-> "given",
   rows |-> "plain", timeline |-> tl]

InitPrepData ==
  /\ Init
  /\ state.data = null

\* state.data = data; prepData(data)
PrepDataFresh ==
  /\ probe = null
  /\ \E tl \in Timelines :
       /\ Commit(prepData([Cur EXCEPT !.state.data = GivenBody(tl)], GivenBody(tl)),
                 "prepData", 0, FALSE, PreOf(Cur))
       /\ probe' = [fn |-> "prepData", timeline |-> tl, run |-> 1, via |-> "network",
                    first |-> null]
  /\ UNCHANGED <<now, nTicks, restored>>

\* prepData once more, on state.data or on its JSON copy
PrepDataAgain ==
  /\ probe # null
  /\ \E via \in {"memory", "cache"} :
       LET data == IF via = "memory" THEN state.data ELSE JSON_value(state.data)
       IN /\ Commit(prepData([Cur EXCEPT !.state.data = data], data),
                    "prepData", 0, FALSE, PreOf(Cur))
          /\ probe' = [fn |-> "prepData", timeline |-> probe.timeline, run |-> 2,
                       via |-> via, first |-> state.days]
  /\ UNCHANGED <<now, nTicks, restored>>

NextPrepData == PrepDataFresh \/ PrepDataAgain

SpecPrepData == InitPrepData /\ [][NextPrepData]_vars

(***************************************************************************)
(* daylightWindow on its own: a body with one day of rows arrives,         *)
(* prepData buckets it, and daylightWindow is called on a bucket of        *)
(* state.days as render calls it (pad 0, line 987; pad 30, line 1025).     *)
(***************************************************************************)
\* explicit boolean is_daylight when the row has one, else elevation > 0
isDaylightRow(r) ==
  IF "is_daylight" \in DOMAIN r THEN r.is_daylight ELSE r.elevation > 0

\* Date arithmetic: a NaN instant stays NaN
PlusMs(t, d) == IF t = NaN THEN NaN ELSE t + d

FirstDaylight(rows) ==
  LET I == {i \in DOMAIN rows : isDaylightRow(rows[i])}
  IN IF I = {} THEN null ELSE [ms |-> tMs(rows[CHOOSE i \in I : \A j \in I : i <= j])]
LastDaylight(rows) ==
  LET I == {i \in DOMAIN rows : isDaylightRow(rows[i])}
  IN IF I = {} THEN null ELSE [ms |-> tMs(rows[CHOOSE i \in I : \A j \in I : i >= j])]

\* start and end are held as their getTime()
daylightWindow(dayRows, padMinutes) ==
  LET first == FirstDaylight(dayRows)
      last_ == LastDaylight(dayRows)
  IN IF first = null \/ last_ = null THEN null
     ELSE [start |-> PlusMs(first.ms, 0 - padMinutes * 60000),
           end |-> PlusMs(last_.ms, padMinutes * 60000)]

\* one day of rows an hour apart, a timestamp that does not parse among them
DayRowValues ==
  LET base == {[time_utc |-> t, day_index |-> 0, ms |-> NoMs, elevation |-> e] :
                 t \in {0, 3600000, 7200000}, e \in {0, 10}}
  IN base \cup {[time_utc |-> r.time_utc, day_index |-> 0, ms |-> NoMs,
                 elevation |-> r.elevation, is_daylight |-> f] : r \in base, f \in BOOLEAN}

DayTimelines == SeqsUpTo(DayRowValues, MaxRows)

Pads == {0, 30}

InitDaylight ==
  /\ Init
  /\ state.data = null

DaylightLoad ==
  /\ probe = null
  /\ \E tl \in DayTimelines :
       /\ Commit(prepData([Cur EXCEPT !.state.data = GivenBody(tl)], GivenBody(tl)),
                 "prepData", 0, FALSE, PreOf(Cur))
       /\ probe' = [fn |-> "prepData", timeline |-> tl]
  /\ UNCHANGED <<now, nTicks, restored>>

\* dayRows = state.days[dayIndex] || []
DaylightWindowCall ==
  /\ probe # null
  /\ \E di \in {0, 1}, pad \in Pads :
       LET dayRows == IF di \in DOMAIN state.days.rows THEN state.days.rows[di] ELSE << >>
       IN probe' = [fn |-> "daylightWindow", timeline |-> probe.timeline, rows |-> dayRows,
                    pad |-> pad, out |-> daylightWindow(dayRows, pad)]
  /\ UNCHANGED <<state, dayAbort, rlTimer, els, sessionStorage, calls, nCalls, here, cd,
                 last, now, nTicks, restored,
                 lastUiMinute, uiRendered>>

NextDaylight == DaylightLoad \/ DaylightWindowCall

SpecDaylight == InitDaylight /\ [][NextDaylight]_vars

(***************************************************************************)
(* renderDecision on its own: render hands it a focus row (line 968) and   *)
(* it writes the decision text and the mood.  Scores are held in tenths of *)
(* a point, so 69.5 is 695; sun_score is a number, a text that is no       *)
(* number, or missing.                                                     *)
(***************************************************************************)
Tenths == 10

\* Number(x || 0)
NumberOr0(x) ==
  IF x.kind = "num" THEN x.v
  ELSE IF x.kind = "text" THEN NaN
  ELSE 0

\* s >= t in JavaScript: false when s is NaN
GeNum(s, t) == s # NaN /\ s >= t

\* variant: the thresholds are exclusive
decision_Strict(s) ==
  IF s # NaN /\ s > DEFAULT_THRESHOLD * Tenths THEN "Sunny"
  ELSE IF s # NaN /\ s > (DEFAULT_THRESHOLD - 15) * Tenths THEN "Mixed"
  ELSE "Blocked"

\* (s >= DEFAULT_THRESHOLD) ? 'Sunny' : (s >= DEFAULT_THRESHOLD - 15 ? 'Mixed' : 'Blocked')
decision(s) ==
  IF GeNum(s, DEFAULT_THRESHOLD * Tenths) THEN "Sunny"
  ELSE IF GeNum(s, (DEFAULT_THRESHOLD - 15) * Tenths) THEN "Mixed"
  ELSE "Blocked"

\* what renderDecision leaves in the decision text and the mood class of the body
renderDecision(focusRow) ==
  LET d == decision(NumberOr0(focusRow.sun_score))
  IN [decisionText |-> d,
      mood |-> IF d = "Sunny" THEN "sunny" ELSE IF d = "Mixed" THEN "mixed" ELSE "blocked"]

\* every whole score from 0 to 100, half points and a tenth either side of the
\* thresholds, and scores out of range
ScoreValues ==
  {k * Tenths : k \in 0..100} \cup {545, 549, 551, 695, 699, 701} \cup {0 - 50, 1200}

FocusRows ==
  {[sun_score |-> sc, elevation |-> e] :
     sc \in {[kind |-> "num", v |-> v] : v \in ScoreValues}
              \cup {[kind |-> "text", v |-> 0], [kind |-> "absent", v |-> 0]},
     e \in {0, 10}}

InitDecision == Init

RenderDecisionCall ==
  /\ \E r \in FocusRows :
       probe' = [fn |-> "renderDecision", row |-> r, out |-> renderDecision(r)]
  /\ UNCHANGED <<state, dayAbort, rlTimer, els, sessionStorage, calls, nCalls, here, cd,
                 last, now, nTicks, restored,
                 lastUiMinute, uiRendered>>

NextDecision == RenderDecisionCall

SpecDecision == InitDecision /\ [][NextDecision]_vars

(***************************************************************************)
(* render on its own: the page holds no data, or a body that fetchDay has  *)
(* stored and bucketed (lines 514-517), and render is called, by the day   *)
(* selector's change listener (line 1109) or by any other caller.  probe   *)
(* keeps the page as render found it.                                      *)
(***************************************************************************)
\* bodies a /day response can carry: the full one, one without timeline, one with
\* rows for today only, one with a timestamp that does not parse, an empty timeline
RenderBodies ==
  {Payload(DemoLoc.lat, DemoLoc.lon, 1, "full"),
   Payload(DemoLoc.lat, DemoLoc.lon, 2, "notl"),
   GivenBody(<< [time_utc |-> 2, day_index |-> 0, ms |-> NoMs],
                [time_utc |-> 1, day_index |-> 0, ms |-> NoMs] >>),
   GivenBody(<< [time_utc |-> 2, day_index |-> 0, ms |-> NoMs],
                [time_utc |-> 0, day_index |-> 0, ms |-> NoMs],
                [time_utc |-> 1, day_index |-> 1, ms |-> NoMs] >>),
   GivenBody(<< >>)}

\* AppState after fetchDay has stored body over a state whose days were prev
StateAfterLoad(body, prev) ==
  LET s0 == [InitState EXCEPT !.lat = DemoLoc.lat, !.lon = DemoLoc.lon,
                              !.label = DemoLoc.label, !.days = prev,
                              !.data = body, !.tzName = TzNameOf(body)]
  IN prepData([state |-> s0], body).state

RenderStates ==
  {InitState}
    \cup {StateAfterLoad(b, prev) :
            b \in RenderBodies, prev \in {null, Buckets(TimelineOf(LoadedBody))}}

InitRender ==
  /\ now = 1000
  /\ nCalls = 0
  /\ nTicks = 0
  /\ \E s \in RenderStates, busy \in BOOLEAN, until \in {0, 11000},
        errBox \in {"", "Network error (could not reach API)."} :
       /\ state = [s EXCEPT !.isBusy = busy, !.rateLimitUntil = until]
       /\ sessionStorage = [EmptyStorage EXCEPT !.rl = until]
       /\ rlTimer = (until > 0)
       /\ els = [InitEls EXCEPT !.errBox = errBox, !.ctlDisabled = busy,
                                !.refreshDisabled = busy \/ until > now]
  /\ dayAbort = 0
  /\ calls = [i \in 1..MaxCalls |-> NoCall]
  /\ here = NoHere
  /\ last = NoTrace
  /\ cd = null
  /\ lastUiMinute = NoMinute
  /\ uiRendered = {}
  /\ restored = 0
  /\ probe = null

RenderCall ==
  /\ Commit(render(Cur), "render", 0, FALSE, PreOf(Cur))
  /\ probe' = [fn |-> "render", was |-> Cur]
  /\ UNCHANGED <<now, nTicks, restored>>

\* daySelect's change listener: if (state.data) render()
DayChange ==
  /\ ~els.ctlDisabled
  /\ \E di \in {0, 1} :
       LET m == [Cur EXCEPT !.els.daySelect = di]
       IN /\ els.daySelect # di
          /\ Commit(IF m.state.data # null THEN render(m) ELSE m, "DayChange", 0, FALSE,
                    PreOf(m))
          /\ probe' = [fn |-> "render", was |-> m]
  /\ UNCHANGED <<now, nTicks, restored>>

NextRender == RenderCall \/ DayChange

SpecRender == InitRender /\ [][NextRender]_vars

(***************************************************************************)
(* The claims.  last is the trace of the step that led to the state, so a  *)
(* claim about what a handler does is an invariant over last and the state *)
(* the handler left.                                                       *)
(***************************************************************************)
\* the handlers that call fetchDay; last.id is the id a new invocation gets
CallOps == {"ClickRefresh", "ClickDemo", "ChooseCity", "RevGeoDone"}
ResponseOps == {"RayResponse", "LocalResponse"}

\* the last step was a fetchDay call, and it went past the gate / was turned away
CallPassed == last.op \in CallOps /\ nCalls = last.id
CallRejected == last.op \in CallOps /\ nCalls = last.id - 1

\* the response handled in the last step is the API's rate-limit signal
RateLimitSignal ==
  /\ last.op \in ResponseOps
  /\ last.arg.kind = "error"
  /\ last.arg.status = 503
  /\ last.arg.detail = "Rate limited, slow down"

\* C1: if fetchDay B is issued while fetchDay A's request is in flight, A's response
\* is never written to state.data/days/tzName (stated as the claim words it; the
\* code breaks it).
C1_SupersededResponseNeverApplied ==
  ~(last.op \in ResponseOps /\ "apply" \in last.ev /\ last.call.sup)

C3_RateLimitNoFallback ==
  (RateLimitSignal /\ last.op = "RayResponse") =>
    /\ state.rateLimitUntil > now
    /\ rlTimer
    /\ "fetch_local" \notin last.ev
    /\ calls[last.id].pc = "none"

C3_Witness == RateLimitSignal /\ last.op = "RayResponse" /\ state.rateLimitUntil > now

\* C4: every rate-limit signal starts the cooldown, whichever request received it
\* (stated as the claim words it; the code breaks it for the fallback request).
C4_EverySignalStartsCooldown ==
  RateLimitSignal => (state.rateLimitUntil > now /\ rlTimer)

\* C5: when fetchDay has returned, by whichever exit, state.isBusy is false (stated
\* as the claim words it; the code breaks it at the cooldown gate).
C5_NotBusyAfterReturn ==
  ("return" \in last.ev \/ CallRejected) => ~state.isBusy

\* C6: a deadline still ahead survives a reload: after the load state.rateLimitUntil
\* is the stored deadline, it stays so until the deadline has passed, and every
\* fetchDay call before that is turned away.
C6_CooldownSurvivesReload ==
  (restored > now) =>
    /\ state.rateLimitUntil = restored
    /\ last.op \in CallOps => CallRejected
    /\ \A i \in 1..MaxCalls : calls[i].pc = "none"

C6_Witness == restored > now /\ last.op \in CallOps

\* C7: after startRateLimitCooldown(s) at t0 the remaining cooldown is positive at
\* every time before t0 + s seconds and 0 from then on, and a fetchDay call made
\* from then on goes past the gate.
C7_CooldownLasts ==
  (cd # null) =>
    LET end == cd.t0 + cd.s * 1000
    IN /\ now < end => rateLimitRemainingMs(Cur) > 0
       /\ now >= end => rateLimitRemainingMs(Cur) = 0
       /\ (last.op \in CallOps /\ now >= end) => CallPassed

C7_Witness == cd # null /\ now >= cd.t0 + cd.s * 1000 /\ CallPassed

\* C8: the cooldown a rate-limit response starts ends at now + s seconds, s being
\* the Retry-After seconds clamped to [5, 900] when the header gives them, else 10;
\* s is within [5, 900].
HintSeconds(ra) ==
  IF ra.present /\ ra.digits
    THEN (IF ra.n < 5 THEN 5 ELSE IF ra.n > 900 THEN 900 ELSE ra.n)
    ELSE 10

C8_DeadlineFromHint ==
  (RateLimitSignal /\ last.op = "RayResponse") =>
    /\ state.rateLimitUntil = now + HintSeconds(last.arg.retryAfter) * 1000
    /\ HintSeconds(last.arg.retryAfter) \in 5..900
    /\ sessionStorage.rl = state.rateLimitUntil

C8_Witness ==
  /\ RateLimitSignal /\ last.op = "RayResponse"
  /\ last.arg.retryAfter.present /\ last.arg.retryAfter.digits
  /\ last.arg.retryAfter.n > 900
  /\ state.rateLimitUntil = now + 900000

\* the cache entries fetchDay looks for at the location it reads after the paint
EntryOf(model) ==
  sessionStorage.cache[cacheKey(state.lat, state.lon, DEFAULT_THRESHOLD, DAYS, model)]
Unexpired(model) ==
  /\ state.lat # NoCoord
  /\ EntryOf(model) # null
  /\ now - EntryOf(model).value.ts <= 5 * 60 * 1000

\* a and b are the same response body: every field the API sent is equal
SameBody(a, b) ==
  a # null /\ b # null /\ [a EXCEPT !.rows = "plain"] = [b EXCEPT !.rows = "plain"]

\* the day buckets of a body: each day's rows, earliest first
DaysOfBody(p) ==
  [rows |-> (0 :> << [time_utc |-> p.req * 10 + 1, day_index |-> 0],
                     [time_utc |-> p.req * 10 + 2, day_index |-> 0] >>
             @@ 1 :> << [time_utc |-> p.req * 10 + 5, day_index |-> 1] >>)]

C9_WitnessForced ==
  /\ last.op = "PaintDone" /\ last.call.force /\ Unexpired("ray")
  /\ calls[last.id].pc = "ray"

\* C10: loadCached returns no entry older than maxAgeMs, and returns null for a
\* missing key, an entry that does not parse and a storage access that throws.
ProbedItem == sessionStorage.cache[cacheKey(DemoLoc.lat, DemoLoc.lon, DEFAULT_THRESHOLD,
                                            DAYS, probe.model)]

C10_LoadNeverStale ==
  (probe # null /\ probe.fn = "loadCached") =>
    /\ probe.out # null =>
         /\ probe.sok
         /\ ProbedItem # null
         /\ ProbedItem.kind = "json"
         /\ ProbedItem.value # null
         /\ probe.at - ProbedItem.value.ts <= probe.maxAgeMs
         /\ probe.out = ProbedItem.value.data
    /\ (~probe.sok \/ ProbedItem = null \/ ProbedItem = Garbage) => probe.out = null

\* an entry exactly maxAgeMs old is returned
C10_Witness ==
  /\ probe # null /\ probe.fn = "loadCached"
  /\ probe.out = ProbeBody
  /\ probe.at - ProbedItem.value.ts = probe.maxAgeMs

\* an entry one millisecond older is not
C10_WitnessExpired ==
  /\ probe # null /\ probe.fn = "loadCached" /\ probe.sok
  /\ ProbedItem = JSON_stringify([ts |-> 1000, data |-> ProbeBody])
  /\ probe.at = 301001 /\ probe.maxAgeMs = 5 * 60 * 1000
  /\ probe.out = null

\* the last call was a loadCached made right after a working saveCached with the same
\* arguments, itself working, before maxAgeMs had elapsed
LoadedAfterSave ==
  /\ probe # null /\ probe.fn = "loadCached"
  /\ probe.saved # null
  /\ probe.saved.args = probe.args
  /\ probe.saved.sok /\ probe.sok
  /\ probe.at - probe.saved.at <= probe.maxAgeMs

\* C11: saveCached followed by loadCached with the same arguments, before maxAgeMs has
\* elapsed and with storage working, returns the payload that was saved (stated as
\* the claim words it; the code breaks it for a body prepData has annotated).
C11_SaveLoadRoundTrip == LoadedAfterSave => probe.out = probe.saved.data

\* C12: an invocation sends the primary request once, after its paint; it sends the
\* fallback request once, when and only when the primary response is a non-success
\* that is no rate-limit signal; the step that handles the fallback response sends
\* nothing and ends the invocation, and no step of the page other than these sends
\* a /day request.
RequestsOfLastStep ==
  /\ "fetch_ray" \in last.ev => last.op = "PaintDone"
  /\ "fetch_local" \in last.ev <=>
       (last.op = "RayResponse" /\ last.arg.kind = "error" /\ ~RateLimitSignal)
  /\ last.op = "LocalResponse" =>
       /\ last.ev \cap {"fetch_ray", "fetch_local"} = {}
       /\ calls[last.id].pc = "none"

\* an invocation moves forward only: paint, primary request, fallback request, end
InvocationAdvances ==
  \A i \in 1..MaxCalls :
    /\ (calls'[i].pc = "paint" /\ calls[i].pc # "paint") => calls[i].pc = "none"
    /\ (calls'[i].pc = "ray" /\ calls[i].pc # "ray") =>
         (calls[i].pc = "paint" /\ "fetch_ray" \in last'.ev)
    /\ (calls'[i].pc = "local" /\ calls[i].pc # "local") =>
         (calls[i].pc = "ray" /\ "fetch_local" \in last'.ev)
    /\ ("fetch_ray" \in last'.ev /\ last'.id = i) =>
         (calls[i].pc = "paint" /\ calls'[i].pc = "ray")
    /\ ("fetch_local" \in last'.ev /\ last'.id = i) =>
         (calls[i].pc = "ray" /\ calls'[i].pc = "local")

C12_AtMostTwoRequests == [](RequestsOfLastStep) /\ [][InvocationAdvances]_vars

C12_Witness ==
  /\ last.op = "LocalResponse" /\ last.arg.kind = "error"
  /\ calls[last.id].pc = "none"

\* the last step applied the body of a successful response
Applied == last.op \in ResponseOps /\ "apply" \in last.ev

\* the key fetchDay saves under: the request's coordinates, the model that answered
UsedKey ==
  cacheKey(last.call.lat, last.call.lon, DEFAULT_THRESHOLD, DAYS,
           IF last.op = "RayResponse" THEN "ray" ELSE "local")

\* C13: a successful response is in the cache under the key of the model that
\* produced it and of the latitude/longitude the request was made for, written at
\* the time of the response, and under no other key.
C13_SavedUnderUsedModel ==
  Applied =>
    /\ sessionStorage.cache[UsedKey] # null
    /\ sessionStorage.cache[UsedKey].value.ts = now
    /\ SameBody(sessionStorage.cache[UsedKey].value.data, last.arg.body)
    /\ cacheKey(last.arg.body.lat, last.arg.body.lon, DEFAULT_THRESHOLD, DAYS,
                UsedKey.m) = UsedKey
    /\ \A k \in CacheKeys :
         (sessionStorage.cache[k] # null
            /\ SameBody(sessionStorage.cache[k].value.data, last.arg.body)) => k = UsedKey

\* the fallback answered, after the page had moved to another location
C13_Witness ==
  /\ Applied /\ last.op = "LocalResponse"
  /\ state.lat # last.call.lat
  /\ sessionStorage.cache[UsedKey] # null

\* the step left state.data, state.days and state.tzName as it found them
DataUntouched ==
  /\ state.data = last.pre.data
  /\ state.days = last.pre.days
  /\ state.tzName = last.pre.tzName

\* C14: when the final response of an invocation is a non-success, the error shown is
\* the detail of its body, or "API error <status>" when the body has none, and no
\* step of the invocation on the way there (the call, the step after the paint, the
\* primary response that led to the fallback, the fallback response) has changed
\* state.data, state.days or state.tzName (stated as the claim words it; the code
\* breaks the message when a cooldown is active as the invocation ends).
C14_UpstreamErrorShown ==
  /\ (last.op = "LocalResponse" /\ last.arg.kind = "error") =>
       /\ els.errBox = IF last.arg.detail # "" THEN last.arg.detail
                       ELSE IF last.arg.status = 500 THEN "API error 500"
                       ELSE "API error 503"
       /\ DataUntouched
       /\ calls[last.id].pc = "none"
  /\ (last.ev \cap {"call", "fetch_ray", "fetch_local"} # {}) => DataUntouched

\* C15: the continuation of a cancelled request leaves the error box and state.data
\* as it found them; a request that fails at network level without being cancelled
\* leaves the connectivity error in the error box (stated as the claim words it;
\* the code breaks it).
C15_AbortSilent ==
  /\ last.op = "AbortDelivered" =>
       /\ els.errBox = last.err
       /\ state.data = last.pre.data
  /\ (last.op \in ResponseOps /\ last.arg.kind = "netfail") =>
       els.errBox = "Network error (could not reach API)."

\* C16: setLocation sets state.lat, state.lon and state.label to its arguments and
\* state.data, state.days and state.tzName to null, and leaves the rest as it was:
\* sessionStorage (every cache entry, the stored deadline), state.rateLimitUntil,
\* state.isBusy, the timer, the controller, the invocations and the error box.
C16_SetLocationFrame ==
  (probe # null /\ probe.fn = "setLocation") =>
    /\ state = [lat |-> probe.args.lat, lon |-> probe.args.lon, label |-> probe.args.label,
                data |-> null, days |-> null, tzName |-> null,
                isBusy |-> probe.was.state.isBusy,
                rateLimitUntil |-> probe.was.state.rateLimitUntil]
    /\ sessionStorage = probe.was.sessionStorage
    /\ rlTimer = probe.was.rlTimer
    /\ dayAbort = probe.was.dayAbort
    /\ calls = probe.was.calls
    /\ els = probe.was.els

\* called with data loaded, the page busy, a cooldown running and an entry cached
C16_Witness ==
  /\ probe # null /\ probe.fn = "setLocation"
  /\ probe.was.state.data # null /\ state.data = null
  /\ state.isBusy /\ state.rateLimitUntil > now
  /\ sessionStorage.cache[ProbeKey] # null
  /\ state.lat # probe.was.state.lat

\* C17: after prepData every day bucket is in non-decreasing order of the parsed
\* instant of its rows, rows whose timestamp does not parse included in the bucket
Parsed(r) == DateParse(r.time_utc) # NaN
NonDecreasing(b) ==
  \A i \in DOMAIN b : \A j \in DOMAIN b :
    (i < j /\ Parsed(b[i]) /\ Parsed(b[j])) => DateParse(b[i].time_utc) <= DateParse(b[j].time_utc)
C17_BucketsSorted ==
  (probe # null /\ probe.fn = "prepData" /\ state.days # null)
    => \A di \in DOMAIN state.days.rows : NonDecreasing(state.days.rows[di])

\* C18: prepData run again on data whose rows carry the instant of the first run
\* leaves the same day buckets, rows in the same order
C18_PrepDataIdempotent ==
  (probe # null /\ probe.fn = "prepData" /\ probe.run = 2) => state.days = probe.first
\* a second run over a bucket the first run had to reorder, rows annotated
C18_Witness ==
  /\ probe # null /\ probe.fn = "prepData" /\ probe.run = 2
  /\ Len(probe.timeline) >= 2
  /\ probe.timeline[1].day_index = probe.timeline[2].day_index
  /\ probe.timeline[1].time_utc = 2 /\ probe.timeline[2].time_utc = 1
  /\ state.data.timeline[1].ms = 2
  /\ state.days = probe.first
\* the second run read the copy from the cache, where an unparsable instant was lost
C18_WitnessCache ==
  /\ probe # null /\ probe.fn = "prepData" /\ probe.run = 2 /\ probe.via = "cache"
  /\ \E i \in DOMAIN probe.timeline : probe.timeline[i].time_utc = 0
  /\ state.days = probe.first

\* C19: daylightWindow(rows, pad) is null exactly when rows has no daylight row;
\* otherwise start + pad <= the instant of every daylight row <= end - pad
LeMs(a, b) == a # NaN /\ b # NaN /\ a <= b
DaylightRowsOf(rows) == {i \in DOMAIN rows : isDaylightRow(rows[i])}
C19_DaylightWindow ==
  (probe # null /\ probe.fn = "daylightWindow") =>
    /\ (probe.out = null) <=> (DaylightRowsOf(probe.rows) = {})
    /\ probe.out # null =>
         \A i \in DaylightRowsOf(probe.rows) :
           /\ LeMs(PlusMs(probe.out.start, probe.pad * 60000), DateParse(probe.rows[i].time_utc))
           /\ LeMs(DateParse(probe.rows[i].time_utc), PlusMs(probe.out.end, 0 - probe.pad * 60000))

\* C20: the decision label is a function of the focus row's score alone, defined for
\* every row: 70 and above is Sunny, from 55 up to but not 70 is Mixed, below 55 is Blocked
Rendered == probe # null /\ probe.fn = "renderDecision"
ScoreOf(r) == r.sun_score.v
HasScore(r) == r.sun_score.kind = "num"
C20_DecisionLabel ==
  Rendered =>
    /\ probe.out.decisionText \in {"Sunny", "Mixed", "Blocked"}
    /\ HasScore(probe.row) =>
         /\ ScoreOf(probe.row) >= 700 => probe.out.decisionText = "Sunny"
         /\ (550 <= ScoreOf(probe.row) /\ ScoreOf(probe.row) < 700)
              => probe.out.decisionText = "Mixed"
         /\ ScoreOf(probe.row) < 550 => probe.out.decisionText = "Blocked"
\* a score of 60 was rendered as Mixed
C20_Witness ==
  Rendered /\ HasScore(probe.row) /\ ScoreOf(probe.row) = 600
    /\ probe.out.decisionText = "Mixed"
C20_WitnessSunny ==
  Rendered /\ HasScore(probe.row) /\ ScoreOf(probe.row) = 700
    /\ probe.out.decisionText = "Sunny"
C20_WitnessBlocked ==
  Rendered /\ HasScore(probe.row) /\ ScoreOf(probe.row) = 549
    /\ probe.out.decisionText = "Blocked"
C20_WitnessNoScore ==
  Rendered /\ ~HasScore(probe.row) /\ probe.out.decisionText = "Blocked"

\* C21: a render started by a wake source (timer, visibilitychange, focus) happens at
\* most once per minute of the clock however often the sources fire, never while
\* state.data is null or state.isBusy is true, and sends no /day request
UiRendered == last.op = "UiRefresh" /\ "render" \in last.ev
UiRenderAllowed ==
  /\ UiRendered => (last.pre.data # null /\ ~state.isBusy)
  /\ last.op = "UiRefresh" => last.ev \cap {"call", "fetch_ray", "fetch_local"} = {}
UiRenderOncePerMinute ==
  /\ (last'.op = "UiRefresh" /\ "render" \in last'.ev) => MinuteOf(now) \notin uiRendered
  /\ last'.op = "UiRefresh" => (calls' = calls /\ nCalls' = nCalls /\ dayAbort' = dayAbort)
C21_UiRefreshCoalesced == [](UiRenderAllowed) /\ [][UiRenderOncePerMinute]_vars
\* a wake event in a minute that uiRefresh has rendered in already: nothing is rendered
C21_Witness ==
  /\ last.op = "UiRefresh" /\ "sameMinute" \in last.ev
  /\ MinuteOf(now) \in uiRendered
\* uiRefresh has rendered in two different minutes
C21_WitnessTwoMinutes == UiRendered /\ Cardinality(uiRendered) = 2
\* a wake event while a fetch is on its way: nothing is rendered
C21_WitnessBusy ==
  last.op = "UiRefresh" /\ state.isBusy /\ state.data # null /\ last.ev = {}

\* C22: once the deadline of a cooldown has passed, whether the cooldown was started
\* on this page or restored from storage by a page load, the refresh control is
\* enabled again (unless the page is busy) and the rate-limit message is gone, with
\* no click, typing or reload needed
RateLimitMsg == "Rate limited by the API"
CooldownOver == state.rateLimitUntil > 0 /\ now >= state.rateLimitUntil
CooldownUiCleared ==
  /\ ~state.isBusy => ~els.refreshDisabled
  /\ els.errBox # RateLimitMsg
\* a later rate-limit response has started the next cooldown
CoolingAgain == state.rateLimitUntil > now
C22_CooldownUiClears == CooldownOver ~> (CooldownUiCleared \/ CoolingAgain \/ HeldByBound)

\* C23: whenever render reads a state with data loaded, state.days is the bucketing
\* of that data's timeline (nothing for a body without timeline) and state.tzName is
\* that data's meta.tz_name (null without one)
RenderRead == "render" \in last.ev /\ state.data # null
C23_RenderSeesConsistentState ==
  RenderRead =>
    /\ state.days = IF state.data.shape = "full" THEN DaysOfBody(state.data) ELSE null
    /\ state.tzName = IF state.data.shape = "full" THEN [tz |-> "Europe/Amsterdam"] ELSE null

\* C24: render only reads AppState: whatever the state and the selected day, lat,
\* lon, label, data, days, tzName, isBusy and rateLimitUntil are after render what
\* they were before, and with state.data null render changes nothing at all
RenderProbed == probe # null /\ probe.fn = "render"
C24_RenderPureReader ==
  RenderProbed =>
    /\ state = probe.was.state
    /\ probe.was.state.data = null =>
         /\ els = probe.was.els
         /\ sessionStorage = probe.was.sessionStorage
         /\ rlTimer = probe.was.rlTimer
         /\ dayAbort = probe.was.dayAbort
         /\ calls = probe.was.calls
         /\ "render" \notin last.ev
\* render found no bucket for the selected day and ran prepData itself
C24_Witness ==
  /\ RenderProbed /\ "render" \in last.ev
  /\ HasTimeline(probe.was.state.data)
  /\ probe.was.els.daySelect \notin DOMAIN probe.was.state.days.rows
  /\ state = probe.was.state
\* render drew a body without timeline over the buckets of the body before
C24_WitnessStale ==
  /\ RenderProbed /\ "render" \in last.ev
  /\ ~HasTimeline(state.data) /\ state.days # null
\* render was called with no data
C24_WitnessNoData ==
  RenderProbed /\ last.op = "render" /\ state.data = null /\ els = probe.was.els

\* C25: whenever state.data is loaded it is the response for the current
\* state.lat/state.lon, whatever the order of setLocation, fetchDay calls and responses
C25_DataMatchesLocation ==
  state.data # null => (state.data.lat = state.lat /\ state.data.lon = state.lon)

\* C26: while the cooldown is active no invocation of fetchDay sends a /day request,
\* one that passed the gate before the cooldown started included
RequestSent == last.ev \cap {"fetch_ray", "fetch_local"} # {}
C26_NoRequestWhileCooling == RequestSent => ~(state.rateLimitUntil > now)

\* C27: state.isBusy is true as long as an invocation of fetchDay waits for the
\* paint or for a /day response
Pending(i) == calls[i].pc \in {"paint", "ray", "local"}
C27_BusyWhilePending == (\E i \in 1..MaxCalls : Pending(i)) => state.isBusy

\* C28: once no geolocation, geocoding, paint or /day request is pending any more,
\* state.isBusy is false and the controls are enabled
NothingPending == here.pc = "none" /\ \A i \in 1..MaxCalls : ~Pending(i)
C28_BusyNeverPermanent == NothingPending => (~state.isBusy /\ ~els.ctlDisabled)

\* C29: an active cooldown's deadline is only replaced by a later or equal one, or
\* reset to 0 once the clock has reached it
DeadlineKept ==
  state.rateLimitUntil > now =>
    \/ state.rateLimitUntil' >= state.rateLimitUntil
    \/ state.rateLimitUntil' = 0 /\ now' >= state.rateLimitUntil
C29_DeadlineNeverEarlier == [][DeadlineKept]_vars
====
